---- MODULE Spec2Model ----
(***************************************************************************)
(* Model of app.py: the Flask handlers load_data, update_variables and     *)
(* create_vg acting on the session (session["variables"],                  *)
(* session["form_data"]), with the helpers they call.                      *)
(*                                                                         *)
(* Strings are sequences of one-character strings, so that strip, the      *)
(* dotted-path concatenation of flatten_json and key equality are computed *)
(* and not assumed.  A Python dict is a sequence of <<key, value>> pairs   *)
(* in insertion order with pairwise different keys.                        *)
(***************************************************************************)
EXTENDS Integers, Sequences, FiniteSets, TLC

VARIABLES
    variables,   \* session["variables"]: list of {key, value, isSecret}
    form_data,   \* session["form_data"]
    pc,          \* position of the create_vg call in flight, "idle" if none
    pending,     \* locals of the create_vg call in flight (request variables)
    calls,       \* remote requests issued by the current / latest handler call
    result,      \* what the latest handler call returned (jsonify argument)
    submitted,   \* the form values of the latest well-formed publish request
    helper       \* a helper function called on its own: name, argument, return

vars == <<variables, form_data, pc, pending, calls, result, submitted, helper>>

----------------------------------------------------------------------------
(* Bounds of the inputs *)

MaxVars == 2      \* longest list an update_variables request carries
MaxReqVars == 1   \* longest list a create_variable_group request carries
MaxRows == 2      \* longest variables_table create_variable_group is given on its own
MaxMembers == 2   \* most members of the root object / elements of the root array
MaxAdds == 2      \* most children of a section of a web.config

----------------------------------------------------------------------------
(* Strings and dicts *)

Range(s) == {s[i] : i \in 1..Len(s)}

SeqsUpTo(S, n) == UNION {[1..m -> S] : m \in 0..n}

IsSpace(c) == c \in {" ", "\t", "\n", "\r"}

RECURSIVE LStrip(_)
LStrip(s) ==
    IF s # <<>> /\ IsSpace(Head(s)) THEN LStrip(Tail(s)) ELSE s

RECURSIVE RStrip(_)
RStrip(s) ==
    IF s # <<>> /\ IsSpace(s[Len(s)]) THEN RStrip(SubSeq(s, 1, Len(s) - 1)) ELSE s

\* strip() forgotten: the string as it came
StripNothing(s) == s

\* str.strip()
Strip(s) == RStrip(LStrip(s))

Digits == <<"0", "1", "2", "3", "4", "5", "6", "7", "8", "9">>

\* str(n) of a non-negative int
RECURSIVE IntToStr(_)
IntToStr(n) ==
    IF n < 10 THEN <<Digits[n + 1]>>
    ELSE IntToStr(n \div 10) \o <<Digits[(n % 10) + 1]>>

DictKeys(d) == [i \in 1..Len(d) |-> d[i][1]]

DictValues(d) == [i \in 1..Len(d) |-> d[i][2]]

DictHas(d, k) == \E i \in 1..Len(d) : d[i][1] = k

DictGet(d, k) == d[CHOOSE i \in 1..Len(d) : d[i][1] = k][2]

\* a list used where the dict is: every assignment adds a pair
DictAppend(d, k, v) == Append(d, <<k, v>>)

\* d[k] = v: an existing key keeps its position, a new key goes last
DictSet(d, k, v) ==
    IF DictHas(d, k)
    THEN [i \in 1..Len(d) |-> IF d[i][1] = k THEN <<k, v>> ELSE d[i]]
    ELSE Append(d, <<k, v>>)

----------------------------------------------------------------------------
(* is_secret_key *)

UpperCase == <<"A", "B", "C", "D", "E", "F", "G", "H", "I", "J", "K", "L", "M",
               "N", "O", "P", "Q", "R", "S", "T", "U", "V", "W", "X", "Y", "Z">>
LowerCase == <<"a", "b", "c", "d", "e", "f", "g", "h", "i", "j", "k", "l", "m",
               "n", "o", "p", "q", "r", "s", "t", "u", "v", "w", "x", "y", "z">>

\* re.IGNORECASE on ASCII letters: both sides compared in lower case
ToLower(s) ==
    [i \in 1..Len(s) |->
        IF \E j \in 1..26 : UpperCase[j] = s[i]
        THEN LowerCase[CHOOSE j \in 1..26 : UpperCase[j] = s[i]]
        ELSE s[i]]

\* s.split(sep)[-1]: what follows the last sep, all of s when it has none
RECURSIVE LastPart(_, _)
LastPart(s, sep) ==
    IF \E i \in 1..Len(s) : s[i] = sep
    THEN LastPart(Tail(s), sep)
    ELSE s

\* the alternatives of the pattern, lines 40-43
SECRET_PATTERNS ==
    <<<<"s", "e", "c", "r", "e", "t">>,
      <<"t", "o", "k", "e", "n">>,
      <<"p", "a", "s", "s", "w", "o", "r", "d">>,
      <<"p", "a", "s", "s", "w", "d">>,
      <<"a", "p", "i", "k", "e", "y">>,
      <<"a", "p", "i", "_", "k", "e", "y">>,
      <<"c", "l", "i", "e", "n", "t", "_", "s", "e", "c", "r", "e", "t">>,
      <<"c", "o", "n", "n", "e", "c", "t", "i", "o", "n", "s", "t", "r", "i", "n", "g">>,
      <<"c", "o", "n", "n", "_", "s", "t", "r">>,
      <<"k", "e", "y">>>>

EndsWith(s, t) == Len(t) <= Len(s) /\ SubSeq(s, Len(s) - Len(t) + 1, Len(s)) = t

\* SECRET_PATTERNS.search(last): an alternative right before the end of the
\* string, or before a newline that ends it
Search(last) ==
    \E i \in 1..Len(SECRET_PATTERNS) :
        \/ EndsWith(ToLower(last), SECRET_PATTERNS[i])
        \/ /\ last # <<>> /\ last[Len(last)] = "\n"
           /\ EndsWith(ToLower(SubSeq(last, 1, Len(last) - 1)), SECRET_PATTERNS[i])

is_secret_key(key_path) == Search(LastPart(LastPart(key_path, "."), "_"))

----------------------------------------------------------------------------
(* JSON values as json.loads returns them *)

JNull == [t |-> "none"]
\* (each type has its own field, so that values of two types have different
\* domains and can be told apart without comparing their contents)
JInt(n) == [t |-> "int", n |-> n]
JStr(s) == [t |-> "str", s |-> s]
JBool(b) == [t |-> "bool", b |-> b]
JList(e) == [t |-> "list", items |-> e]
\* a dict: <<name, value>> pairs in document order, names pairwise different
JDict(m) == [t |-> "dict", members |-> m]

\* "" if x is None else str(x)
ScalarStr(x) ==
    CASE x.t = "none" -> <<>>
      [] x.t = "int" -> IntToStr(x.n)
      [] x.t = "bool" -> IF x.b THEN <<"T", "r", "u", "e">> ELSE <<"F", "a", "l", "s", "e">>
      [] OTHER -> x.s

\* the test on pk left out: f"{pk}.{k}" always
ChildKeyAlwaysDot(pk, k) == pk \o <<".">> \o k

\* f"{pk}.{k}" if pk else str(k)
ChildKey(pk, k) == IF pk # <<>> THEN pk \o <<".">> \o k ELSE k

RECURSIVE _walk(_, _, _)
RECURSIVE WalkDict(_, _, _, _)
RECURSIVE WalkList(_, _, _, _)

\* for k, v in x.items(): _walk(v, new_key), from the i-th member on
WalkDict(items, i, pk, out) ==
    IF i > Len(items) THEN out
    ELSE WalkDict(items, i + 1, pk,
                  _walk(items[i][2], ChildKey(pk, items[i][1]), out))

\* for i, v in enumerate(x): _walk(v, new_key), from the i-th element on
WalkList(items, i, pk, out) ==
    IF i > Len(items) THEN out
    ELSE WalkList(items, i + 1, pk,
                  _walk(items[i], ChildKey(pk, IntToStr(i - 1)), out))

_walk(x, pk, out) ==
    CASE x.t = "dict" -> WalkDict(x.members, 1, pk, out)
      [] x.t = "list" -> WalkList(x.items, 1, pk, out)
      [] OTHER -> DictSet(out, pk, ScalarStr(x))

flatten_json(obj) == _walk(obj, <<>>, <<>>)

----------------------------------------------------------------------------
(* XML documents as ET.fromstring returns them *)

\* an element: tag, attrib (a function on the attribute names present), children
Elem(tag, attrib, children) == [tag |-> tag, attrib |-> attrib, children |-> children]

NoAttr == [n \in {} |-> <<>>]

\* root.find(tag): the first child with that tag; <<>> stands for None
Find(el, tag) ==
    IF \E i \in 1..Len(el.children) : el.children[i].tag = tag
    THEN <<el.children[CHOOSE i \in 1..Len(el.children) :
                /\ el.children[i].tag = tag
                /\ \A j \in 1..(i - 1) : el.children[j].tag # tag]>>
    ELSE <<>>

\* el.findall(tag): the children with that tag, in document order
FindAll(el, tag) == SelectSeq(el.children, LAMBDA c : c.tag = tag)

\* the value tested like the key: `if k and v`
RECURSIVE AddSectionTruthyValue(_, _, _, _, _, _, _)
AddSectionTruthyValue(adds, i, section, kattr, vattr, section_prefix, out) ==
    IF i > Len(adds) THEN out
    ELSE LET a == adds[i].attrib
             has == /\ kattr \in DOMAIN a /\ a[kattr] # <<>>
                    /\ vattr \in DOMAIN a /\ a[vattr] # <<>>
             key == IF section_prefix THEN section \o <<".">> \o a[kattr] ELSE a[kattr]
         IN AddSectionTruthyValue(adds, i + 1, section, kattr, vattr, section_prefix,
                                  IF has THEN DictSet(out, key, a[vattr]) ELSE out)

\* the loop over one section: `if k and v is not None: out[key] = v`
RECURSIVE AddSection(_, _, _, _, _, _, _)
AddSection(adds, i, section, kattr, vattr, section_prefix, out) ==
    IF i > Len(adds) THEN out
    ELSE LET a == adds[i].attrib
             has == kattr \in DOMAIN a /\ a[kattr] # <<>> /\ vattr \in DOMAIN a
             key == IF section_prefix THEN section \o <<".">> \o a[kattr] ELSE a[kattr]
         IN AddSection(adds, i + 1, section, kattr, vattr, section_prefix,
                       IF has THEN DictSet(out, key, a[vattr]) ELSE out)

S_appSettings == <<"a", "p", "p", "S", "e", "t", "t", "i", "n", "g", "s">>
S_connectionStrings ==
    <<"c", "o", "n", "n", "e", "c", "t", "i", "o", "n", "S", "t", "r", "i", "n", "g", "s">>

parse_web_config(root, section_prefix) ==
    LET app_settings == Find(root, "appSettings")
        out1 == IF app_settings # <<>>
                THEN AddSection(FindAll(app_settings[1], "add"), 1, S_appSettings,
                                "key", "value", section_prefix, <<>>)
                ELSE <<>>
        conns == Find(root, "connectionStrings")
    IN IF conns # <<>>
       THEN AddSection(FindAll(conns[1], "add"), 1, S_connectionStrings,
                       "name", "connectionString", section_prefix, out1)
       ELSE out1

----------------------------------------------------------------------------
(* VariableSetMerger: the merge load_data performs *)

Rec(k, v, s) == [key |-> k, value |-> v, isSecret |-> s]

\* current_vars = {var["key"]: var for var in session["variables"]}
RECURSIVE IndexByKey(_, _, _)
IndexByKey(vs, i, d) ==
    IF i > Len(vs) THEN d ELSE IndexByKey(vs, i + 1, DictSet(d, vs[i].key, vs[i]))

\* current_vars[k] = {"key": k, "value": v, "isSecret": False}
ImportedRecord(k, v) == Rec(k, v, FALSE)

\* for k, v in flat.items(): current_vars[k] = {...}
RECURSIVE Overlay(_, _, _)
Overlay(current_vars, flat, i) ==
    IF i > Len(flat) THEN current_vars
    ELSE Overlay(DictSet(current_vars, flat[i][1], ImportedRecord(flat[i][1], flat[i][2])),
                 flat, i + 1)

\* session["variables"] = list(current_vars.values())
merge(existing, incoming) ==
    DictValues(Overlay(IndexByKey(existing, 1, <<>>), incoming, 1))

----------------------------------------------------------------------------
(* Requests of the model *)

Keys == {<<"a">>, <<" ">>}
Values == {<<"1">>}
Records == {Rec(k, v, s) : k \in Keys, v \in Values, s \in BOOLEAN}

\* request bodies of /update_variables; ok = FALSE: get_json() gives no object
UpdateBodies ==
    {[ok |-> FALSE, variables |-> <<>>]}
    \cup {[ok |-> TRUE, variables |-> vs] : vs \in SeqsUpTo(Records, MaxVars)}

JsonDocs == {
    JDict(<<>>),
    JDict(<< <<<<"a">>, JInt(2)>> >>),
    JDict(<< <<<<"b">>, JNull>>, <<<<"a">>, JInt(1)>> >>) }

Add(attrib) == Elem("add", attrib, <<>>)

XmlDocs == {
    Elem("configuration", NoAttr, <<
        Elem("appSettings", NoAttr, <<
            Add([n \in {"key", "value"} |-> IF n = "key" THEN <<"a">> ELSE <<"3">>]),
            Add([n \in {"key", "value"} |-> IF n = "key" THEN <<>> ELSE <<"4">>]),
            Add([n \in {"value"} |-> <<"5">>]) >>),
        Elem("connectionStrings", NoAttr, <<
            Add([n \in {"name", "connectionString"} |->
                    IF n = "name" THEN <<"b">> ELSE <<"s">>]) >>) >>) }

\* request bodies of /load_data; wf = FALSE: content that does not parse
LoadBodies ==
    {[ok |-> FALSE, type |-> "json", wf |-> FALSE, doc |-> JNull]}
    \cup {[ok |-> TRUE, type |-> "yaml", wf |-> TRUE, doc |-> JNull]}
    \cup {[ok |-> TRUE, type |-> "json", wf |-> FALSE, doc |-> JNull]}
    \cup {[ok |-> TRUE, type |-> "xml", wf |-> FALSE,
            doc |-> Elem("configuration", NoAttr, <<>>)]}
    \cup {[ok |-> TRUE, type |-> "json", wf |-> TRUE, doc |-> d] : d \in JsonDocs}
    \cup {[ok |-> TRUE, type |-> "xml", wf |-> TRUE, doc |-> d] : d \in XmlDocs}

\* the mapping a well-formed import brings: flat (line 185) or xml_map (line 198)
Incoming(data) ==
    IF data.type = "json" THEN flatten_json(data.doc)
    ELSE parse_web_config(data.doc, FALSE)

Imports(data) == data.ok /\ data.wf /\ data.type \in {"json", "xml"}

\* the parse errors not caught: whatever came is taken for a document
ParseFailedNever(data) == FALSE

\* json.loads raises JSONDecodeError (line 184), parse_web_config lets the
\* ParseError of ET.fromstring through (line 197)
ParseFailed(data) == ~data.wf

----------------------------------------------------------------------------
(* The session and the handlers *)

NoResult == [op |-> "none", success |-> FALSE, kind |-> "none", detail |-> <<>>]

Result(op, success, kind, detail) ==
    [op |-> op, success |-> success, kind |-> kind, detail |-> detail]

NoPending == [variables |-> <<>>]

\* no publish request has come yet
NoneSubmitted == [sent |-> FALSE, form |-> <<>>]

\* no helper is being called on its own
NoHelper == [fn |-> "none", arg |-> <<>>, ret |-> <<>>, done |-> FALSE]

\* the description a new session starts with, "JSON / web.config'den otomatik
\* olusturuldu" (its s-cedilla written s: the module is ASCII)
InitialDescription ==
    <<"J", "S", "O", "N", " ", "/", " ", "w", "e", "b", ".", "c",
      "o", "n", "f", "i", "g", "'", "d", "e", "n", " ", "o", "t",
      "o", "m", "a", "t", "i", "k", " ", "o", "l", "u", "s", "t",
      "u", "r", "u", "l", "d", "u">>

\* init_session()
init_session ==
    /\ variables = <<>>
    /\ form_data = [organization |-> <<>>, project |-> <<>>, pat_token |-> <<>>,
                    variable_group_name |-> <<>>, vg_description |-> InitialDescription]

Init ==
    /\ init_session
    /\ pc = "idle"
    /\ pending = NoPending
    /\ calls = <<>>
    /\ result = NoResult
    /\ submitted = NoneSubmitted
    /\ helper = NoHelper

load_data(data) ==
    /\ pc = "idle"
    /\ calls' = <<>>
    /\ UNCHANGED <<form_data, pc, pending, submitted, helper>>
    /\ IF ~data.ok
       THEN /\ result' = Result("load_data", FALSE, "exception", "AttributeError")
            /\ UNCHANGED variables
       ELSE IF data.type \notin {"json", "xml"}
       THEN /\ result' = Result("load_data", FALSE, "bad_type", <<>>)
            /\ UNCHANGED variables
       ELSE IF ParseFailed(data)
       THEN /\ result' = Result("load_data", FALSE,
                                IF data.type = "json" THEN "json_decode_error"
                                ELSE "xml_parse_error", <<>>)
            /\ UNCHANGED variables
       ELSE /\ variables' = merge(variables, Incoming(data))
            /\ result' = Result("load_data", TRUE, data.type,
                                [count |-> Len(Incoming(data)), variables |-> variables'])

update_variables(data) ==
    /\ pc = "idle"
    /\ calls' = <<>>
    /\ UNCHANGED <<form_data, pc, pending, submitted, helper>>
    /\ IF ~data.ok
       THEN /\ result' = Result("update_variables", FALSE, "exception", "AttributeError")
            /\ UNCHANGED variables
       ELSE /\ variables' = data.variables
            /\ result' = Result("update_variables", TRUE, "ok", <<>>)

----------------------------------------------------------------------------
(* create_vg: the publish protocol *)

\* request bodies of /create_variable_group: every combination of blank and
\* filled required fields (blank: empty or whitespace only), the description
\* given or left empty
Forms ==
    {[organization |-> o, project |-> p, pat_token |-> t,
      variable_group_name |-> n, vg_description |-> d] :
        o \in {<<>>, <<"o">>}, p \in {<<" ">>, <<"p">>}, t \in {<<>>, <<"t">>},
        n \in {<<" ", " ">>, <<"G">>}, d \in {<<>>}}
    \cup {[organization |-> <<"o">>, project |-> <<"p">>, pat_token |-> <<"t">>,
           variable_group_name |-> <<"G">>, vg_description |-> <<"d">>]}

\* rows of a publish request: a plain one, one whose key has padding, one
\* whose key is blank
ReqRecords ==
    {Rec(<<"a">>, <<"1">>, FALSE), Rec(<<" ", "b">>, <<"1">>, TRUE),
     Rec(<<" ">>, <<"1">>, TRUE)}

\* the lists a publish request carries
ReqLists == SeqsUpTo(ReqRecords, MaxReqVars)

PublishBodies ==
    {[ok |-> FALSE, form |-> f, variables |-> <<>>] :
        f \in {fd \in Forms : fd.vg_description # <<>>}}
    \cup {[ok |-> TRUE, form |-> f, variables |-> vs] :
            f \in Forms, vs \in ReqLists}

\* the validation loop: the labels of the blank fields, in the order checked
RECURSIVE MissingFrom(_, _, _)
MissingFrom(fields, i, missing) ==
    IF i > Len(fields) THEN missing
    ELSE MissingFrom(fields, i + 1,
                     IF Strip(fields[i][2]) = <<>>
                     THEN Append(missing, fields[i][1]) ELSE missing)

Missing(fd) ==
    MissingFrom(<< <<"Organization", fd.organization>>,
                   <<"Project", fd.project>>,
                   <<"PAT Token", fd.pat_token>>,
                   <<"Variable Group Name", fd.variable_group_name>> >>, 1, <<>>)

\* the local form_data dict built from the request (lines 239-245)
FormOf(data) ==
    [organization |-> data.form.organization,
     project |-> data.form.project,
     pat_token |-> data.form.pat_token,
     variable_group_name |-> data.form.variable_group_name,
     vg_description |-> data.form.vg_description]

\* the form saved only once the request has passed validation
SavedFormIfValid(fd, data) ==
    IF Missing(FormOf(data)) # <<>> \/ data.variables = <<>> THEN fd ELSE FormOf(data)

\* session["form_data"] = form_data (line 246), before the validation
SavedForm(fd, data) == FormOf(data)

\* responses of GET .../_apis/projects/{project}; raises: requests.get raised;
\* json: the body is a JSON object
ResolveResponses == {
    [raises |-> TRUE, status |-> 0, json |-> FALSE, body |-> [text |-> <<>>]],
    [raises |-> FALSE, status |-> 200, json |-> TRUE, body |-> [id |-> <<"P">>]],
    [raises |-> FALSE, status |-> 200, json |-> TRUE, body |-> [name |-> <<"p">>]],
    [raises |-> FALSE, status |-> 200, json |-> FALSE, body |-> [text |-> <<"h">>]],
    [raises |-> FALSE, status |-> 404, json |-> TRUE, body |-> [message |-> <<"m">>]],
    [raises |-> FALSE, status |-> 401, json |-> FALSE, body |-> [text |-> <<"h">>]] }

\* dict.get(k, default)
Get(obj, k, default) == IF k \in DOMAIN obj THEN obj[k] ELSE default

\* the status left unchecked: every response counts as resolved
get_project_id_any_status(r) == <<TRUE, Get(r.body, "id", <<>>)>>

\* get_project_id: <<ok, pid_or_err>>; only called when r.json() does not raise
get_project_id(r) ==
    IF r.status = 200
    THEN <<TRUE, Get(r.body, "id", <<>>)>>
    ELSE <<FALSE, [status |-> r.status,
                   msg |-> IF r.json THEN Get(r.body, "message", <<>>)
                           ELSE r.body.text]>>

\* get_project_id lets an exception through: requests.get or r.json() raised
ResolveRaises(r) == r.raises \/ (r.status = 200 /\ ~r.json)

\* "Created via Flask UI"
DefaultDescription ==
    <<"C", "r", "e", "a", "t", "e", "d", " ", "v", "i", "a", " ",
      "F", "l", "a", "s", "k", " ", "U", "I">>

\* `if not key: continue` left out: a blank key gets an entry too
RECURSIVE PayloadVariablesKeepBlank(_, _, _)
PayloadVariablesKeepBlank(table, i, out) ==
    IF i > Len(table) THEN out
    ELSE LET key == Strip(table[i].key)
             entry == IF table[i].isSecret
                      THEN [value |-> table[i].value, isSecret |-> TRUE]
                      ELSE [value |-> table[i].value]
         IN PayloadVariablesKeepBlank(table, i + 1, DictSet(out, key, entry))

\* the flag written for every row: "isSecret": bool(...)
RECURSIVE PayloadVariablesFlagAlways(_, _, _)
PayloadVariablesFlagAlways(table, i, out) ==
    IF i > Len(table) THEN out
    ELSE LET key == Strip(table[i].key)
             entry == [value |-> table[i].value, isSecret |-> table[i].isSecret]
         IN PayloadVariablesFlagAlways(table, i + 1,
                             IF key = <<>> THEN out ELSE DictSet(out, key, entry))

\* the loop building `variables` of the payload
RECURSIVE PayloadVariables(_, _, _)
PayloadVariables(table, i, out) ==
    IF i > Len(table) THEN out
    ELSE LET key == Strip(table[i].key)
             entry == IF table[i].isSecret
                      THEN [value |-> table[i].value, isSecret |-> TRUE]
                      ELSE [value |-> table[i].value]
         IN PayloadVariables(table, i + 1,
                             IF key = <<>> THEN out ELSE DictSet(out, key, entry))

\* the payload create_variable_group posts
Payload(fd, project_id, table) ==
    LET description == IF fd.vg_description # <<>> THEN fd.vg_description
                       ELSE DefaultDescription
    IN [type |-> "Vsts",
        name |-> fd.variable_group_name,
        description |-> description,
        variables |-> PayloadVariables(table, 1, <<>>),
        variableGroupProjectReferences |->
            << [projectReference |-> [id |-> project_id, name |-> fd.project],
                name |-> fd.variable_group_name,
                description |-> description] >>]

\* responses of POST .../_apis/distributedtask/variablegroups
SubmitResponses == {
    [raises |-> TRUE, status |-> 0, json |-> FALSE, body |-> [text |-> <<>>]],
    [raises |-> FALSE, status |-> 201, json |-> TRUE,
     body |-> [id |-> 7, name |-> <<"G">>,
               variables |-> << <<<<"a">>, 1>>, <<<<"b">>, 2>> >>]],
    [raises |-> FALSE, status |-> 200, json |-> TRUE, body |-> [name |-> <<"H">>]],
    [raises |-> FALSE, status |-> 201, json |-> FALSE, body |-> [text |-> <<"h">>]],
    [raises |-> FALSE, status |-> 400, json |-> TRUE, body |-> [message |-> <<"m">>]],
    [raises |-> FALSE, status |-> 500, json |-> FALSE, body |-> [text |-> <<"h">>]] }

S_None == <<"N", "o", "n", "e">>

\* the parts of success_msg: str(id), str(name), len(variables)
SuccessMsg(resp_data) ==
    [id |-> IF "id" \in DOMAIN resp_data THEN IntToStr(resp_data.id) ELSE S_None,
     name |-> Get(resp_data, "name", S_None),
     count |-> Len(Get(resp_data, "variables", <<>>))]

\* the emptiness check left out
NoVariablesUnchecked(vs) == FALSE

\* `if not variables`
NoVariables(vs) == vs = <<>>

\* the set cleared on the status alone, before resp.json() is tried
PublishedOnStatus(resp) == ~resp.raises /\ resp.status \in {200, 201}

\* the POST's response reaches line 301: the status is 200 or 201 and
\* resp.json() has not raised
Published(resp) == ~resp.raises /\ resp.status \in {200, 201} /\ resp.json

\* line 301 left out
VariablesKept(vs, resp) == vs

\* session["variables"] once the POST has returned: [] after line 301, else as before
VariablesAfterSubmit(vs, resp) == IF Published(resp) THEN <<>> ELSE vs

\* the rows read from the session instead of the request
SessionVariables(data, vs) == vs

\* variables = data.get("variables", []) (line 248): the rows of the request,
\* whatever the session holds
RequestVariables(data, vs) == data.variables

\* the outer except left out: the exception leaves the handler, which returns
\* no result
Uncaught(detail) == NoResult

\* except Exception as e (lines 317-318): "Beklenmeyen hata: {str(e)}"
Unexpected(detail) == Result("create_vg", FALSE, "unexpected", detail)

\* the handler up to its first remote request
create_vg(data) ==
    /\ pc = "idle"
    /\ UNCHANGED <<variables, helper>>
    /\ IF ~data.ok
       THEN /\ result' = Unexpected("AttributeError")
            /\ calls' = <<>>
            /\ UNCHANGED <<form_data, pc, pending, submitted>>
       ELSE /\ submitted' = [sent |-> TRUE, form |-> data.form]
            /\ form_data' = SavedForm(form_data, data)
            /\ IF Missing(FormOf(data)) # <<>>
               THEN /\ result' = Result("create_vg", FALSE, "missing", Missing(FormOf(data)))
                    /\ calls' = <<>>
                    /\ UNCHANGED <<pc, pending>>
               ELSE IF NoVariables(RequestVariables(data, variables))
               THEN /\ result' = Result("create_vg", FALSE, "no_variables", <<>>)
                    /\ calls' = <<>>
                    /\ UNCHANGED <<pc, pending>>
               ELSE /\ pc' = "get_project_id"
                    /\ pending' = [variables |-> RequestVariables(data, variables)]
                    /\ calls' = << [method |-> "GET",
                                    organization |-> FormOf(data).organization,
                                    project |-> FormOf(data).project] >>
                    /\ result' = NoResult

\* the GET tried once more when it has failed
RetriedResolve(cs) == Append(cs, cs[1])

\* the requests issued when the handler returns at `if not ok` (lines 273-279):
\* none beyond those made
RequestsAfterFailedResolve(cs) == cs

\* the GET returns (or raises): the handler up to its return or to the POST
create_vg_resolved(r) ==
    /\ pc = "get_project_id"
    /\ UNCHANGED <<variables, form_data, submitted, helper>>
    /\ IF ResolveRaises(r)
       THEN /\ result' = Unexpected(IF r.raises THEN "ConnectionError"
                                     ELSE "JSONDecodeError")
            /\ pc' = "idle"
            /\ pending' = NoPending
            /\ UNCHANGED calls
       ELSE IF ~get_project_id(r)[1]
       THEN /\ result' = Result("create_vg", FALSE, "resolve", get_project_id(r)[2])
            /\ pc' = "idle"
            /\ pending' = NoPending
            /\ calls' = RequestsAfterFailedResolve(calls)
       ELSE /\ pc' = "create_variable_group"
            /\ calls' = Append(calls,
                   [method |-> "POST",
                    payload |-> Payload(form_data, get_project_id(r)[2],
                                        pending.variables)])
            /\ UNCHANGED <<pending, result>>

\* the POST returns (or raises): the handler to its return
create_vg_submitted(resp) ==
    /\ pc = "create_variable_group"
    /\ pc' = "idle"
    /\ pending' = NoPending
    /\ UNCHANGED <<form_data, calls, submitted, helper>>
    /\ variables' = VariablesAfterSubmit(variables, resp)
    /\ IF resp.raises \/ (resp.status \in {200, 201} /\ ~resp.json)
       THEN result' = Unexpected(IF resp.raises THEN "ConnectionError"
                                  ELSE "JSONDecodeError")
       ELSE IF resp.status \in {200, 201}
       THEN result' = Result("create_vg", TRUE, "created", SuccessMsg(resp.body))
       ELSE result' = Result("create_vg", FALSE, "submit",
                             [status |-> resp.status,
                              error_detail |-> IF resp.json THEN resp.body
                                               ELSE [raw |-> resp.body.text]])

Next ==
    \/ \E data \in LoadBodies : load_data(data)
    \/ \E data \in UpdateBodies : update_variables(data)
    \/ \E data \in PublishBodies : create_vg(data)
    \/ \E r \in ResolveResponses : create_vg_resolved(r)
    \/ \E resp \in SubmitResponses : create_vg_submitted(resp)

Spec == Init /\ [][Next]_vars

\* a remote call in flight comes back: requests.get and requests.post return
\* or raise
FairSpec ==
    /\ Spec
    /\ WF_vars(\E r \in ResolveResponses : create_vg_resolved(r))
    /\ WF_vars(\E resp \in SubmitResponses : create_vg_submitted(resp))

----------------------------------------------------------------------------
(* The helpers called on their own, each on one argument *)

\* rows of a variables_table: plain, padded key (the same key once stripped),
\* blank key, another key
TableRows ==
    {Rec(<<"a">>, <<"1">>, FALSE), Rec(<<" ", "a">>, <<"2">>, TRUE),
     Rec(<<" ">>, <<"3">>, TRUE), Rec(<<"b">>, <<"2">>, FALSE)}

Tables == SeqsUpTo(TableRows, MaxRows)

\* JSON values: scalars and null
Scalars == {JNull, JInt(1), JStr(<<"x">>), JBool(TRUE)}

\* the values of a member of the root: a scalar, or an object or array (empty
\* or not) of scalars
Inner ==
    Scalars
    \cup {JDict(<<>>), JList(<<>>),
          JDict(<< <<<<"b">>, JInt(2)>> >>),
          JDict(<< <<<<>>, JNull>> >>),
          JList(<<JInt(2), JInt(3)>>)}

\* member names: plain, with a dot inside, empty
Names == {<<"a">>, <<"a", ".", "b">>, <<>>}

\* the example {"a": {"b": 1, "c": [2, 3]}}
ExampleDoc ==
    JDict(<< << <<"a">>,
                JDict(<< <<<<"b">>, JInt(1)>>,
                         <<<<"c">>, JList(<<JInt(2), JInt(3)>>)>> >>) >> >>)

\* the values flatten_json is called on: objects with pairwise different
\* member names, arrays, scalars
FlattenArgs ==
    {JDict(m) : m \in {n \in SeqsUpTo(Names \X Inner, MaxMembers) :
                          \A i, j \in 1..Len(n) : i # j => n[i][1] # n[j][1]}}
    \cup {JList(e) : e \in SeqsUpTo(Inner, MaxMembers)}
    \cup Scalars
    \cup {ExampleDoc}

\* attributes of an element: two of them, or one alone
Attr2(n1, v1, n2, v2) == [n \in {n1, n2} |-> IF n = n1 THEN v1 ELSE v2]
Attr1(n1, v1) == [n \in {n1} |-> v1]

\* children of appSettings: key and value; the same key again; an empty key;
\* no key; no value; an empty value; an element that is not `add`
AppChildren ==
    {Add(Attr2("key", <<"X">>, "value", <<"Y">>)),
     Add(Attr2("key", <<"X">>, "value", <<"Z">>)),
     Add(Attr2("key", <<>>, "value", <<"Y">>)),
     Add(Attr1("value", <<"Y">>)),
     Add(Attr1("key", <<"K">>)),
     Add(Attr2("key", <<"K">>, "value", <<>>)),
     Elem("remove", Attr2("key", <<"R">>, "value", <<"Y">>),
          <<>>)}

\* children of connectionStrings: name and connectionString (the name a key of
\* appSettings too); an empty name; no connectionString; an empty one
ConnChildren ==
    {Add(Attr2("name", <<"X">>, "connectionString", <<"S">>)),
     Add(Attr2("name", <<>>, "connectionString", <<"S">>)),
     Add(Attr1("name", <<"N">>)),
     Add(Attr2("name", <<"N">>, "connectionString", <<>>))}

AppSections == {Elem("appSettings", NoAttr, c) : c \in SeqsUpTo(AppChildren, MaxAdds)}

ConnSections == {Elem("connectionStrings", NoAttr, c) : c \in SeqsUpTo(ConnChildren, MaxAdds)}

\* the documents parse_web_config is called on: each section there or not, and
\* one document with a section given twice
ConfigDocs ==
    {Elem("configuration", NoAttr, a \o c) :
        a \in {<<>>} \cup {<<x>> : x \in AppSections},
        c \in {<<>>} \cup {<<x>> : x \in ConnSections}}
    \cup {Elem("configuration", NoAttr,
               <<Elem("connectionStrings", NoAttr, <<>>),
                 Elem("appSettings", NoAttr,
                      <<Add(Attr2("key", <<"X">>, "value", <<"Y">>))>>),
                 Elem("appSettings", NoAttr,
                      <<Add(Attr2("key", <<"K">>, "value", <<"Z">>))>>)>>)}

ParseArgs == {[root |-> d, section_prefix |-> b] : d \in ConfigDocs, b \in BOOLEAN}

\* the key paths is_secret_key is called on
SecretArgs ==
    {<<"d", "b", ".", "c", "o", "n", "n", "e", "c", "t", "i", "o", "n", "S", "t", "r", "i", "n", "g">>,
     <<"u", "s", "e", "r", ".", "n", "a", "m", "e">>,
     <<"c", "o", "n", "n", "_", "s", "t", "r">>,
     <<"d", "b", ".", "c", "o", "n", "n", "_", "s", "t", "r">>,
     <<"a", "p", "i", "_", "k", "e", "y">>,
     <<"c", "l", "i", "e", "n", "t", "_", "s", "e", "c", "r", "e", "t">>,
     <<"m", "y", ".", "A", "p", "i", "_", "K", "e", "y">>,
     <<"P", "A", "S", "S", "W", "O", "R", "D">>,
     <<"d", "b", "_", "p", "a", "s", "s", "w", "d">>,
     <<"a", "p", "i", "k", "e", "y">>,
     <<"x", ".", "t", "o", "k", "e", "n">>,
     <<"m", "o", "n", "k", "e", "y">>,
     <<"k", "e", "y", ".", "n", "a", "m", "e">>,
     <<"s", "e", "c", "r", "e", "t", "_", "i", "d">>,
     <<"n", "a", "m", "e">>,
     <<"s", "t", "r">>,
     <<>>,
     <<"a", ".", "b", ".", "s", "e", "c", "r", "e", "t">>,
     <<"k", "e", "y", "s">>,
     <<"t", "o", "k", "e", "n", ".">>}

Call(fn, arg) == [fn |-> fn, arg |-> arg, ret |-> <<>>, done |-> FALSE]

\* one helper about to be called on one argument
HelperCalls ==
    \/ \E x \in Tables : helper = Call("create_variable_group", x)
    \/ \E x \in FlattenArgs : helper = Call("flatten_json", x)
    \/ \E x \in ParseArgs : helper = Call("parse_web_config", x)
    \/ \E x \in SecretArgs : helper = Call("is_secret_key", x)

HelperInit ==
    /\ init_session
    /\ pc = "idle"
    /\ pending = NoPending
    /\ calls = <<>>
    /\ result = NoResult
    /\ submitted = NoneSubmitted
    /\ HelperCalls

\* the helper fn has been called and has not returned
Called(fn) == helper.fn = fn /\ ~helper.done

\* the call, returned with ret
Returned(ret) == [helper EXCEPT !.ret = ret, !.done = TRUE]

session == <<variables, form_data, pc, pending, calls, result, submitted>>

\* create_variable_group up to its payload: the `variables` object
call_create_variable_group ==
    /\ Called("create_variable_group")
    /\ helper' = Returned(PayloadVariables(helper.arg, 1, <<>>))
    /\ UNCHANGED session

call_flatten_json ==
    /\ Called("flatten_json")
    /\ helper' = Returned(flatten_json(helper.arg))
    /\ UNCHANGED session

call_parse_web_config ==
    /\ Called("parse_web_config")
    /\ helper' = Returned(parse_web_config(helper.arg.root, helper.arg.section_prefix))
    /\ UNCHANGED session

call_is_secret_key ==
    /\ Called("is_secret_key")
    /\ helper' = Returned(is_secret_key(helper.arg))
    /\ UNCHANGED session

HelperNext ==
    \/ call_is_secret_key
    \/ call_create_variable_group
    \/ call_flatten_json
    \/ call_parse_web_config

HelperSpec == HelperInit /\ [][HelperNext]_vars

----------------------------------------------------------------------------
(* Properties *)

IsBlank(s) == \A i \in 1..Len(s) : IsSpace(s[i])

\* the labels of the required fields that are blank in a form
BlankLabels(f) ==
    {l \in {"Organization", "Project", "PAT Token", "Variable Group Name"} :
        \/ l = "Organization" /\ IsBlank(f.organization)
        \/ l = "Project" /\ IsBlank(f.project)
        \/ l = "PAT Token" /\ IsBlank(f.pat_token)
        \/ l = "Variable Group Name" /\ IsBlank(f.variable_group_name)}

NoPost(cs) == \A i \in 1..Len(cs) : cs[i].method # "POST"

\* the GET came back with HTTP 200 and a JSON object
ResolveSucceeded(r) == ~r.raises /\ r.status = 200 /\ r.json

KeysOf(vs) == [i \in 1..Len(vs) |-> vs[i].key]

\* a step of a create_vg call: one taken while the call is in flight, one that
\* puts it in flight, or one that returns its result
PublishStep == pc # "idle" \/ pc' # "idle" \/ result'.op = "create_vg"

\* the step returns the result of another handler, so is no step of create_vg
OtherResult == result'.op \in {"load_data", "update_variables"}

\* the well-formed publish request with this form and these rows
PublishBody(f, vs) == [ok |-> TRUE, form |-> f, variables |-> vs]

\* C1: within a create_vg call the POST is issued only by the step that
\* receives a successful answer to the GET of that call, right after that GET;
\* when the GET fails (404, 401, an exception, a body that is not JSON) the call
\* returns a failure and has issued no POST.
C1_SubmitOnlyAfterResolve ==
    [][ /\ (calls' # calls /\ calls' # <<>> /\ calls'[Len(calls')].method = "POST")
            => /\ pc = "get_project_id"
               /\ Len(calls) = 1 /\ calls[1].method = "GET"
               /\ Len(calls') = 2 /\ calls'[1] = calls[1]
               /\ \E r \in ResolveResponses :
                      ResolveSucceeded(r) /\ create_vg_resolved(r)
        /\ \A r \in ResolveResponses :
              (pc = "get_project_id" /\ ~ResolveSucceeded(r) /\ create_vg_resolved(r))
                  => /\ pc' = "idle"
                     /\ result'.op = "create_vg" /\ ~result'.success
                     /\ NoPost(calls') ]_vars

\* a call in which the POST has been issued, after its GET
C1_Witness ==
    /\ pc = "create_variable_group"
    /\ Len(calls) = 2 /\ calls[1].method = "GET" /\ calls[2].method = "POST"

\* C2 (as claimed): an import that brings a key already in the session set
\* leaves a record with that key, the incoming value and the isSecret flag the
\* record had before.
C2_ImportKeepsSecret ==
    [][ \A data \in LoadBodies :
          (Imports(data) /\ result'.op = "load_data" /\ load_data(data))
              => \A i \in 1..Len(variables) :
                    DictHas(Incoming(data), variables[i].key)
                        => \E j \in 1..Len(variables') :
                              variables'[j] =
                                  Rec(variables[i].key,
                                      DictGet(Incoming(data), variables[i].key),
                                      variables[i].isSecret) ]_vars

\* C3: when a create_vg call returns success, the POST was answered 200 or
\* 201, the session set is empty, and the message carries the id, the name and
\* the number of variables of the response (7, "G" and 2 for the response
\* {"id": 7, "name": "G", "variables": {"a": 1, "b": 2}}).
C3_PublishClears ==
    [][ \A resp \in SubmitResponses :
          (pc = "create_variable_group" /\ result'.success /\ create_vg_submitted(resp))
              => /\ resp.status \in {200, 201}
                 /\ variables' = <<>>
                 /\ "id" \in DOMAIN resp.body => result'.detail.id = IntToStr(resp.body.id)
                 /\ "name" \in DOMAIN resp.body => result'.detail.name = resp.body.name
                 /\ "variables" \in DOMAIN resp.body =>
                        result'.detail.count =
                            Cardinality({resp.body.variables[i][1] :
                                            i \in 1..Len(resp.body.variables)})
                 /\ (resp.status = 201 /\ resp.json) =>
                        result'.detail = [id |-> <<"7">>, name |-> <<"G">>, count |-> 2] ]_vars

\* a successful publish of the response with id 7, name G and two variables
C3_Witness ==
    /\ pc = "idle"
    /\ result.op = "create_vg" /\ result.success
    /\ result.detail = [id |-> <<"7">>, name |-> <<"G">>, count |-> 2]
    /\ variables = <<>>

\* C4: every step of a create_vg call, except the one that returns success,
\* leaves the session set as it was; so a call that returns a failure (missing
\* fields, no variables, resolve failure, submit failure, exception) returns
\* with the set it started with.
C4_FailedPublishKeepsVariables ==
    [][ (PublishStep /\ ~(pc' = "idle" /\ result'.success)) => variables' = variables ]_vars

\* a publish that failed at the POST with a non-empty session set
C4_Witness ==
    /\ pc = "idle"
    /\ result.op = "create_vg" /\ ~result.success
    /\ result.kind \in {"submit", "unexpected"}
    /\ Len(calls) = 2
    /\ variables # <<>>

\* C5: a create_vg call with a blank required field returns at once with
\* success = false and a message listing exactly the blank fields, once each,
\* and issues no remote request.
C5_MissingFields ==
    [][ \/ /\ pc' = "idle"
           /\ result'.op = "create_vg" /\ ~result'.success
           /\ result'.kind = "missing"
           /\ Range(result'.detail) = BlankLabels(form_data')
           /\ Len(result'.detail) = Cardinality(BlankLabels(form_data'))
           /\ calls' = <<>>
        \/ pc # "idle"
        \/ OtherResult
        \/ BlankLabels(form_data') = {}
        \/ ~ \E vs \in ReqLists : create_vg(PublishBody(form_data', vs)) ]_vars

\* a publish that failed naming only the organization
C5_Witness ==
    /\ pc = "idle"
    /\ result.op = "create_vg" /\ result.kind = "missing"
    /\ result.detail = <<"Organization">>
    /\ IsBlank(form_data.organization)
    /\ calls = <<>>

\* C6: a create_vg call with the four required fields filled and an empty
\* variable list returns at once with success = false (no variables) and
\* issues no remote request.
C6_NoVariables ==
    [][ (pc = "idle" /\ ~OtherResult /\ BlankLabels(form_data') = {}
         /\ create_vg(PublishBody(form_data', <<>>)))
              => /\ pc' = "idle"
                 /\ result'.op = "create_vg" /\ ~result'.success
                 /\ result'.kind = "no_variables"
                 /\ calls' = <<>> ]_vars

\* a publish refused for its empty list, the session set not being empty
C6_Witness ==
    /\ pc = "idle"
    /\ result.op = "create_vg" /\ result.kind = "no_variables"
    /\ BlankLabels(form_data) = {}
    /\ variables # <<>>
    /\ calls = <<>>

\* C7 (as claimed): no two records of the session set share a key.
C7_UniqueKeys ==
    \A i, j \in 1..Len(variables) : i # j => variables[i].key # variables[j].key

\* C8: importing a mapping a second time changes nothing: for the session set
\* S of any reachable state and any mapping M an import can bring,
\* merge(merge(S, M), M) = merge(S, M).
C8_MergeIdempotent ==
    \A data \in {d \in LoadBodies : Imports(d)} :
        merge(merge(variables, Incoming(data)), Incoming(data))
            = merge(variables, Incoming(data))

\* an import that overwrote a record and added one
C8_Witness ==
    /\ result.op = "load_data" /\ result.success
    /\ result.detail.count = 2
    /\ Len(variables) >= 2

\* C9 (as claimed): a successful import keeps every record whose key the
\* incoming mapping does not have, with the same key, value and isSecret.
C9_ImportAdditive ==
    [][ \A data \in LoadBodies :
          (Imports(data) /\ result'.op = "load_data" /\ load_data(data))
              => \A i \in 1..Len(variables) :
                    ~DictHas(Incoming(data), variables[i].key)
                        => \E j \in 1..Len(variables') : variables'[j] = variables[i] ]_vars

\* C10 (as claimed): after a successful import the keys of the session set
\* are the keys it had, position by position, followed by the incoming keys it
\* did not have, in the order of the incoming mapping.
C10_ImportOrder ==
    [][ \A data \in LoadBodies :
          (Imports(data) /\ result'.op = "load_data" /\ load_data(data))
              => KeysOf(variables') =
                    KeysOf(variables)
                    \o SelectSeq(DictKeys(Incoming(data)),
                                 LAMBDA k : \A i \in 1..Len(variables) :
                                                variables[i].key # k) ]_vars

\* C11: an import whose content does not parse (JSON or XML) returns
\* success = false with a message and leaves the session set and the form
\* values as they were.
C11_MalformedImport ==
    [][ \A data \in {d \in LoadBodies : d.ok /\ d.type \in {"json", "xml"} /\ ~d.wf} :
          (pc = "idle" /\ result'.op = "load_data" /\ load_data(data))
              => /\ ~result'.success
                 /\ result'.kind =
                        (IF data.type = "json" THEN "json_decode_error" ELSE "xml_parse_error")
                 /\ variables' = variables
                 /\ form_data' = form_data ]_vars

\* malformed XML refused in a session that has variables and saved form values
C11_Witness ==
    /\ result.op = "load_data" /\ ~result.success
    /\ result.kind = "xml_parse_error"
    /\ variables # <<>>
    /\ submitted.sent

\* C12: once a publish request has come, the saved form values are the five
\* values of the latest publish request, whatever that call returned
\* (validation failure, resolve failure, submit failure, success); load_data
\* and update_variables leave the form values as they were.
C12_FormSavedBeforeValidation ==
    [][ /\ submitted'.sent => form_data' = submitted'.form
        /\ result'.op \in {"load_data", "update_variables"} => form_data' = form_data ]_vars

\* a publish refused for its blank organization, its form values saved
C12_Witness ==
    /\ pc = "idle"
    /\ result.op = "create_vg" /\ result.kind = "missing"
    /\ submitted.sent
    /\ IsBlank(submitted.form.organization) /\ submitted.form.project = <<"p">>
    /\ form_data = submitted.form

\* the create_variable_group call has returned
Built == helper.fn = "create_variable_group" /\ helper.done

\* the payload entry that carries a row's value and flag: isSecret present only
\* when true
EntryOf(row) ==
    IF row.isSecret THEN [value |-> row.value, isSecret |-> TRUE]
    ELSE [value |-> row.value]

\* C13 (as claimed): the variables object has an entry for a key exactly when
\* some row has that key and the key is not blank, and the entry carries that
\* row's value, with isSecret only when the row's flag is true.
C13_PayloadKeyedByRecordKey ==
    Built =>
        LET rows == helper.arg
            out == helper.ret
        IN /\ \A k \in Range(DictKeys(out)) :
                  \E i \in 1..Len(rows) : rows[i].key = k /\ ~IsBlank(k)
           /\ \A i \in 1..Len(rows) :
                  ~IsBlank(rows[i].key)
                      => /\ DictHas(out, rows[i].key)
                         /\ DictGet(out, rows[i].key) = EntryOf(rows[i])

\* C13 (amended): the variables object has an entry for a key exactly when
\* that key is the stripped key of some row and is not empty; keys are not
\* repeated; the entry carries the value and flag of the last row with that
\* stripped key, with isSecret only when that row's flag is true.
C13_PayloadKeyedByStrippedKey ==
    Built =>
        LET rows == helper.arg
            out == helper.ret
            With(k) == {i \in 1..Len(rows) : Strip(rows[i].key) = k}
            Last(k) == CHOOSE i \in With(k) : \A j \in With(k) : j <= i
        IN /\ \A i, j \in 1..Len(out) : i # j => out[i][1] # out[j][1]
           /\ \A k \in Range(DictKeys(out)) : k # <<>> /\ With(k) # {}
           /\ \A i \in 1..Len(rows) :
                  Strip(rows[i].key) # <<>> => DictHas(out, Strip(rows[i].key))
           /\ \A j \in 1..Len(out) : out[j][2] = EntryOf(rows[Last(out[j][1])])

\* a table with a blank key and two rows of the same stripped key, built
C13_Witness ==
    /\ Built
    /\ \E i, j \in 1..Len(helper.arg) :
          /\ i < j
          /\ helper.arg[i].key # helper.arg[j].key
          /\ Strip(helper.arg[i].key) = Strip(helper.arg[j].key)
          /\ helper.arg[i].value # helper.arg[j].value
    /\ Len(helper.ret) = 1

\* the records of a list whose key is blank, in order
BlankRows(vs) == SelectSeq(vs, LAMBDA row : IsBlank(row.key))

\* C14 (as claimed): no step of a create_vg call removes a blank-key record
\* from the session set.
C14_PublishKeepsBlankRows ==
    [][ PublishStep => BlankRows(variables') = BlankRows(variables) ]_vars

\* C14 (amended): the payload posted has no entry for a blank key and
\* building it leaves the list of the request as it was; every step of a
\* create_vg call except the one that returns success leaves the blank-key
\* records of the session set as they were; the step that returns success
\* empties the session set, blank-key records included.
C14_BlankRowsKeptUnlessPublished ==
    [][ /\ (pc = "get_project_id" /\ pc' = "create_variable_group")
            => /\ pending' = pending
               /\ BlankRows(variables') = BlankRows(variables)
               /\ \A j \in 1..Len(calls'[2].payload.variables) :
                      ~IsBlank(calls'[2].payload.variables[j][1])
               /\ \A i \in 1..Len(pending.variables) :
                      ~IsBlank(pending.variables[i].key)
                          => DictHas(calls'[2].payload.variables,
                                     Strip(pending.variables[i].key))
        /\ (PublishStep /\ ~(pc' = "idle" /\ result'.success))
            => BlankRows(variables') = BlankRows(variables)
        /\ (PublishStep /\ pc' = "idle" /\ result'.success)
            => BlankRows(variables') = <<>> ]_vars

\* a POST issued for a request whose list has a blank-key row, the session
\* set holding a blank-key record too
C14_Witness ==
    /\ pc = "create_variable_group"
    /\ BlankRows(pending.variables) # <<>>
    /\ BlankRows(variables) # <<>>
    /\ Len(calls) = 2

\* the flatten_json call has returned
Flattened == helper.fn = "flatten_json" /\ helper.done

\* the scalar and null leaves of a JSON value, in document order, each with
\* its path: the member names and array indexes from the root
RECURSIVE Leaves(_, _)
RECURSIVE LeavesOfMembers(_, _, _)
RECURSIVE LeavesOfItems(_, _, _)
LeavesOfMembers(x, i, path) ==
    IF i > Len(x.members) THEN <<>>
    ELSE Leaves(x.members[i][2], Append(path, x.members[i][1]))
         \o LeavesOfMembers(x, i + 1, path)

LeavesOfItems(x, i, path) ==
    IF i > Len(x.items) THEN <<>>
    ELSE Leaves(x.items[i], Append(path, IntToStr(i - 1)))
         \o LeavesOfItems(x, i + 1, path)

Leaves(x, path) ==
    CASE x.t = "dict" -> LeavesOfMembers(x, 1, path)
      [] x.t = "list" -> LeavesOfItems(x, 1, path)
      [] OTHER -> << <<path, x>> >>

\* the segments of a path joined with dots
RECURSIVE JoinDots(_)
JoinDots(path) ==
    IF path = <<>> THEN <<>>
    ELSE IF Len(path) = 1 THEN path[1]
    ELSE path[1] \o <<".">> \o JoinDots(Tail(path))

RECURSIVE DropLeadingEmpty(_)
DropLeadingEmpty(path) ==
    IF path # <<>> /\ Head(path) = <<>> THEN DropLeadingEmpty(Tail(path)) ELSE path

\* "" if x is None else str(x), spelled out for the leaves of the model
StringForm(x) ==
    CASE x = JNull -> <<>>
      [] x = JInt(1) -> <<"1">>
      [] x = JInt(2) -> <<"2">>
      [] x = JInt(3) -> <<"3">>
      [] x = JBool(TRUE) -> <<"T", "r", "u", "e">>
      [] x = JStr(<<"x">>) -> <<"x">>

\* C15 (as claimed): flatten_json returns exactly one entry per scalar or null
\* leaf, keyed by the leaf's path joined with dots and valued by the leaf's
\* string form; the example flattens to {"a.b": "1", "a.c.0": "2",
\* "a.c.1": "3"} and {} and [] to {}.
C15_OneEntryPerLeaf ==
    Flattened =>
        LET leaves == Leaves(helper.arg, <<>>)
            out == helper.ret
        IN /\ Len(out) = Len(leaves)
           /\ \A i \in 1..Len(leaves) :
                  /\ DictHas(out, JoinDots(leaves[i][1]))
                  /\ DictGet(out, JoinDots(leaves[i][1])) = StringForm(leaves[i][2])

\* C15 (amended): flatten_json returns one entry per different key among the
\* leaves, the key of a leaf being its path joined with dots, leading empty
\* member names left out; the entry is valued by the string form of the last
\* leaf, in document order, that has that key; an empty object or array gives
\* no key; the example flattens to {"a.b": "1", "a.c.0": "2", "a.c.1": "3"}
\* and {} and [] to {}.
C15_OneEntryPerLeafKey ==
    Flattened =>
        LET leaves == Leaves(helper.arg, <<>>)
            out == helper.ret
            KeyOf(i) == JoinDots(DropLeadingEmpty(leaves[i][1]))
            With(k) == {i \in 1..Len(leaves) : KeyOf(i) = k}
            Last(k) == CHOOSE i \in With(k) : \A j \in With(k) : j <= i
        IN /\ \A i, j \in 1..Len(out) : i # j => out[i][1] # out[j][1]
           /\ Range(DictKeys(out)) = {KeyOf(i) : i \in 1..Len(leaves)}
           /\ \A j \in 1..Len(out) :
                  out[j][2] = StringForm(leaves[Last(out[j][1])][2])
           /\ helper.arg = ExampleDoc
                  => out = << <<<<"a", ".", "b">>, <<"1">>>>,
                              <<<<"a", ".", "c", ".", "0">>, <<"2">>>>,
                              <<<<"a", ".", "c", ".", "1">>, <<"3">>>> >>
           /\ helper.arg \in {JDict(<<>>), JList(<<>>)} => out = <<>>

\* {"a": {"b": 2}, "a.b": 1} flattened: two leaves, one key
C15_Witness ==
    /\ Flattened
    /\ helper.arg = JDict(<< <<<<"a">>, JDict(<< <<<<"b">>, JInt(2)>> >>)>>,
                             <<<<"a", ".", "b">>, JInt(1)>> >>)
    /\ helper.ret = << <<<<"a", ".", "b">>, <<"1">>>> >>

\* the parse_web_config call has returned
Parsed == helper.fn = "parse_web_config" /\ helper.done

\* the `add` children of the first child of the root with this tag, each as
\* [k, v]: its entry key (bare or prefixed) and value, when both attributes of
\* the section are present
Present(root, section, tag, kattr, vattr, section_prefix) ==
    LET secs == SelectSeq(root.children, LAMBDA c : c.tag = tag)
        adds == IF secs = <<>> THEN <<>>
                ELSE SelectSeq(secs[1].children,
                               LAMBDA c : /\ c.tag = "add"
                                          /\ kattr \in DOMAIN c.attrib
                                          /\ vattr \in DOMAIN c.attrib)
    IN [i \in 1..Len(adds) |->
          [name |-> adds[i].attrib[kattr],
           k |-> IF section_prefix THEN section \o <<".">> \o adds[i].attrib[kattr]
                 ELSE adds[i].attrib[kattr],
           v |-> adds[i].attrib[vattr]]]

\* <configuration><appSettings><add key="X" value="Y"/></appSettings></configuration>
ExampleConfig ==
    Elem("configuration", NoAttr,
         <<Elem("appSettings", NoAttr,
                <<Add(Attr2("key", <<"X">>, "value", <<"Y">>))>>)>>)

\* the elements of both sections with both attributes present, appSettings first
AllPresent(arg) ==
    Present(arg.root, S_appSettings, "appSettings", "key", "value", arg.section_prefix)
    \o Present(arg.root, S_connectionStrings, "connectionStrings",
               "name", "connectionString", arg.section_prefix)

\* C16 (as claimed): parse_web_config returns one entry for each `add` of
\* appSettings with key and value present and each `add` of connectionStrings
\* with name and connectionString present, keyed by the bare or prefixed
\* key/name and carrying the value.
C16_OneEntryPerAdd ==
    Parsed =>
        LET els == AllPresent(helper.arg)
            out == helper.ret
        IN /\ Len(out) = Len(els)
           /\ \A i \in 1..Len(els) :
                  DictHas(out, els[i].k) /\ DictGet(out, els[i].k) = els[i].v

\* C16 (amended): parse_web_config returns one entry for each different entry
\* key among the `add` elements of the first appSettings and the first
\* connectionStrings child of the root that have a non-empty key (name) and a
\* value (connectionString) attribute, empty or not; the entry key is the bare
\* key/name or the section tag joined with a dot to it; the entry carries the
\* value of the last such element with that entry key, appSettings before
\* connectionStrings; every other element is skipped.  The document
\* <configuration><appSettings><add key="X" value="Y"/></appSettings>
\* </configuration> gives {"X": "Y"}, or {"appSettings.X": "Y"} when prefixed.
C16_OneEntryPerNonEmptyKey ==
    Parsed =>
        LET els == SelectSeq(AllPresent(helper.arg), LAMBDA e : e.name # <<>>)
            out == helper.ret
            With(k) == {i \in 1..Len(els) : els[i].k = k}
            Last(k) == CHOOSE i \in With(k) : \A j \in With(k) : j <= i
        IN /\ \A i, j \in 1..Len(out) : i # j => out[i][1] # out[j][1]
           /\ Range(DictKeys(out)) = {els[i].k : i \in 1..Len(els)}
           /\ \A j \in 1..Len(out) : out[j][2] = els[Last(out[j][1])].v
           /\ helper.arg.root = ExampleConfig
                  => out = << <<IF helper.arg.section_prefix
                                THEN S_appSettings \o <<".", "X">> ELSE <<"X">>,
                                <<"Y">>>> >>

\* a prefixed parse of a document with an empty key, an empty value and the
\* key X in both sections
C16_Witness ==
    /\ Parsed
    /\ helper.arg.section_prefix
    /\ Len(AllPresent(helper.arg)) = 3
    /\ helper.ret =
          << <<S_appSettings \o <<".", "K">>, <<>>>>,
             <<S_connectionStrings \o <<".", "X">>, <<"S">>>> >>

\* the is_secret_key call has returned
Classified == helper.fn = "is_secret_key" /\ helper.done

\* what follows the last dot of a key path
LastDotSegment(key) ==
    LET dots == {i \in 1..Len(key) : key[i] = "."}
    IN IF dots = {} THEN key
       ELSE SubSeq(key, (CHOOSE i \in dots : \A j \in dots : j <= i) + 1, Len(key))

\* what follows the last underscore of the last dot segment
FinalToken(key) ==
    LET seg == LastDotSegment(key)
        us == {i \in 1..Len(seg) : seg[i] = "_"}
    IN IF us = {} THEN seg
       ELSE SubSeq(seg, (CHOOSE i \in us : \A j \in us : j <= i) + 1, Len(seg))

ListedTokens == Range(SECRET_PATTERNS)

\* C17 (as claimed): is_secret_key returns true exactly when the final token
\* of the key ends, whatever the case, with a listed token; it is true for
\* "db.connectionString" and false for "user.name"; and it is true for every
\* key whose last dot-separated segment is one of the listed tokens.
C17_SecretByListedToken ==
    Classified =>
        /\ helper.ret = (\E t \in ListedTokens : EndsWith(ToLower(FinalToken(helper.arg)), t))
        /\ helper.arg = <<"d", "b", ".", "c", "o", "n", "n", "e", "c", "t", "i", "o", "n", "S", "t", "r", "i", "n", "g">> => helper.ret = TRUE
        /\ helper.arg = <<"u", "s", "e", "r", ".", "n", "a", "m", "e">> => helper.ret = FALSE
        /\ ToLower(LastDotSegment(helper.arg)) \in ListedTokens => helper.ret = TRUE

\* the kinds of failure result, each returned with a message: "Hata: ...",
\* "Gecersiz tur", "JSON okunamadi: ...", "XML parse hatasi: ...",
\* "Beklenmeyen hata: ...", "Eksik alanlar: ...", "En az bir degisken
\* ekleyin.", the resolve error, "Hata: {status}"
MessageKinds ==
    {"exception", "bad_type", "json_decode_error", "xml_parse_error",
     "unexpected", "missing", "no_variables", "resolve", "submit"}

\* a structured result of one of the three operations
Structured(res) ==
    /\ res.op \in {"load_data", "update_variables", "create_vg"}
    /\ res.success \in BOOLEAN
    /\ ~res.success => res.kind \in MessageKinds

\* C18: every step that ends an operation returns a structured result with
\* a boolean success, a failure with a message; a request without a JSON body
\* is answered by each operation; a remote call in flight can come back with
\* any response or exception and the handler goes on; and a create_vg call in
\* flight returns in the end.
C18_AlwaysStructuredResult ==
    /\ [][ pc' = "idle" => Structured(result') ]_vars
    /\ [](pc = "idle" =>
              /\ ENABLED load_data([ok |-> FALSE, type |-> "json", wf |-> FALSE,
                                    doc |-> JNull])
              /\ ENABLED update_variables([ok |-> FALSE, variables |-> <<>>])
              /\ \A f \in {fd \in Forms : fd.vg_description # <<>>} :
                    ENABLED create_vg([ok |-> FALSE, form |-> f, variables |-> <<>>]))
    /\ [](pc = "get_project_id" =>
              \A r \in ResolveResponses : ENABLED create_vg_resolved(r))
    /\ [](pc = "create_variable_group" =>
              \A resp \in SubmitResponses : ENABLED create_vg_submitted(resp))
    /\ (pc # "idle") ~> (pc = "idle" /\ Structured(result))

\* a publish whose POST was answered 201 with a body that is not JSON: the
\* exception of resp.json() caught and reported
C18_Witness ==
    /\ pc = "idle"
    /\ result = Unexpected("JSONDecodeError")
    /\ Len(calls) = 2

\* the number of requests of a method among the requests of a call
Count(cs, method) == Cardinality({i \in 1..Len(cs) : cs[i].method = method})

\* C19: a create_vg call issues at most one GET and at most one POST; when the
\* GET fails the call returns a failure without another request; once the POST
\* has come back, failed or not, the call returns without another request.
C19_OneAttempt ==
    [][ /\ Count(calls', "GET") <= 1
        /\ Count(calls', "POST") <= 1
        /\ Len(calls') <= 2
        /\ (pc = "get_project_id" /\ pc' # "create_variable_group")
            => /\ pc' = "idle"
               /\ ~result'.success
               /\ calls' = calls
        /\ pc = "create_variable_group"
            => /\ pc' = "idle"
               /\ calls' = calls ]_vars

\* a publish whose POST was refused after its GET had succeeded: two requests
\* in all
C19_Witness ==
    /\ pc = "idle"
    /\ result.op = "create_vg" /\ result.kind = "submit"
    /\ result.detail.status = 500
    /\ Count(calls, "GET") = 1 /\ Count(calls, "POST") = 1

\* C20: the rows a create_vg call validates and sends are those of its
\* request, not those of the session: the call goes on to the GET with the
\* request's list in hand, and every key of the payload posted is the stripped
\* key of a row of that list; a call that returns success leaves the session
\* set empty, whatever it held; a call with the required fields filled and an
\* empty list is refused (no variables) without a request, the session set,
\* though not empty, left as it was.
C20_PublishesRequestRows ==
    [][ /\ (pc = "idle" /\ pc' = "get_project_id")
            => \A vs \in ReqLists :
                  create_vg(PublishBody(form_data', vs))
                      => vs # <<>> /\ pending'.variables = vs
        /\ (pc = "get_project_id" /\ pc' = "create_variable_group")
            => \A j \in 1..Len(calls'[2].payload.variables) :
                  \E i \in 1..Len(pending.variables) :
                      Strip(pending.variables[i].key) = calls'[2].payload.variables[j][1]
        /\ (PublishStep /\ pc' = "idle" /\ result'.success) => variables' = <<>>
        /\ (pc = "idle" /\ ~OtherResult /\ variables # <<>>
             /\ BlankLabels(form_data') = {}
             /\ create_vg(PublishBody(form_data', <<>>)))
            => /\ pc' = "idle"
               /\ ~result'.success /\ result'.kind = "no_variables"
               /\ calls' = <<>>
               /\ variables' = variables ]_vars

\* a POST issued for the rows of the request while the session holds other
\* records, none of them with a key of the payload
C20_Witness ==
    /\ pc = "create_variable_group"
    /\ variables # <<>>
    /\ variables # pending.variables
    /\ calls[2].payload.variables # <<>>
    /\ \A i \in 1..Len(variables) :
          ~DictHas(calls[2].payload.variables, Strip(variables[i].key))

====
